---- MODULE Spec2Model ----
(***************************************************************************)
(* A model of the lscolors crate: the SGR parser of src/style.rs and the   *)
(* style registry, path classifier and style resolver of src/lib.rs.       *)
(*                                                                         *)
(* Rust strings are TLA+ strings, read with Len, Head, Tail, SubSeq and    *)
(* \o.  Option<T> is a sequence: None is << >> and Some(x) is << x >>.     *)
(***************************************************************************)
EXTENDS Integers, Sequences, FiniteSets, TLC

VARIABLES
    lscolors,   \* the LsColors value: [indicator_mapping, suffix_mapping]
    ctor,       \* the constructor that built it: "empty", "default", "from_string"
    input,      \* the string given to from_string or to Style::from_ansi_sequence
    call,       \* the last lookup made on lscolors and what it returned
    styled_components   \* the StyledComponents iterator over lscolors, if one
                        \* was made: [component_path, components]

vars == <<lscolors, ctor, input, call, styled_components>>

None == << >>
Some(x) == << x >>
IsSome(o) == o # << >>
Unwrap(o) == o[1]

(***************************************************************************)
(* Bounds of the model.                                                    *)
(***************************************************************************)
\* The number of `:`-separated entries of a configuration string.
MaxEntries == 2

(***************************************************************************)
(* src/style.rs                                                            *)
(***************************************************************************)
Black == << "Black" >>
Red == << "Red" >>
Green == << "Green" >>
Yellow == << "Yellow" >>
Blue == << "Blue" >>
Purple == << "Purple" >>
Cyan == << "Cyan" >>
White == << "White" >>
Fixed(n) == << "Fixed", n >>
RGB(r, g, b) == << "RGB", r, g, b >>

FontStyle_default == [bold |-> FALSE, italic |-> FALSE, underline |-> FALSE]
FontStyle_bold == [bold |-> TRUE, italic |-> FALSE, underline |-> FALSE]
FontStyle_italic == [bold |-> FALSE, italic |-> TRUE, underline |-> FALSE]
FontStyle_underline == [bold |-> FALSE, italic |-> FALSE, underline |-> TRUE]

Style(fg, bg, font) == [foreground |-> fg, background |-> bg, font_style |-> font]

\* The character of s at position i (1-based).
CharAt(s, i) == SubSeq(s, i, i)

\* str::split: the pieces of s between the occurrences of the character sep;
\* a string without sep (the empty string too) is one piece.
split(s, sep) ==
    LET at == {i \in 1..Len(s) : CharAt(s, i) = sep}
        n == Cardinality(at)
        \* The position of the k-th sep; 0 and Len(s) + 1 stand for the two ends.
        pos(k) == IF k = 0 THEN 0
                  ELSE IF k = n + 1 THEN Len(s) + 1
                  ELSE CHOOSE i \in at : Cardinality({j \in at : j <= i}) = k
    IN  [k \in 1..(n + 1) |-> SubSeq(s, pos(k - 1) + 1, pos(k) - 1)]

Digits == "0123456789"
IsDigit(ch) == \E d \in 1..10 : CharAt(Digits, d) = ch
DigitVal(ch) == (CHOOSE d \in 1..10 : CharAt(Digits, d) = ch) - 1

U8_MAX == 255

\* The value of a string of decimal digits, or U8_MAX + 1 once it overflows a u8.
RECURSIVE DecimalValue(_, _)
DecimalValue(digits, acc) ==
    IF digits = "" THEN acc
    ELSE LET v == acc * 10 + DigitVal(Head(digits))
         IN  IF v > U8_MAX THEN U8_MAX + 1 ELSE DecimalValue(Tail(digits), v)

\* u8::from_str_radix(src, 10).ok(): an optional `+`, then one digit or more,
\* nothing else, and a value that fits a u8.
u8_from_str_radix(src) ==
    IF src = "" THEN None
    ELSE LET digits == IF Head(src) = "+" THEN Tail(src) ELSE src
         IN  IF digits = "" \/ \E i \in 1..Len(digits) : ~IsDigit(CharAt(digits, i))
             THEN None
             ELSE LET v == DecimalValue(digits, 0)
                  IN  IF v > U8_MAX THEN None ELSE Some(v)

\* parts.pop_front() on the k-th call of one match arm: the k-th part, if any.
pop_front(parts, k) == IF Len(parts) >= k THEN Some(parts[k]) ELSE None

NamedColor(n) ==
    CASE n = 0 -> Black [] n = 1 -> Red [] n = 2 -> Green [] n = 3 -> Yellow
      [] n = 4 -> Blue [] n = 5 -> Purple [] n = 6 -> Cyan [] n = 7 -> White

\* The arm of 38 (field "foreground") and 48 (field "background"): the colour the
\* extended sequence at the front of parts sets and the number of parts it pops,
\* or None where the arm breaks out of the loop.
ExtendedColor(parts) ==
    LET a == pop_front(parts, 1)
        b == pop_front(parts, 2)
    IN  IF a = Some(5) /\ IsSome(b) THEN Some(<< Fixed(Unwrap(b)), 2 >>)
        ELSE IF a = Some(2) /\ IsSome(b)
        THEN LET g == pop_front(parts, 3)
                 bl == pop_front(parts, 4)
             IN  IF IsSome(g) /\ IsSome(bl)
                 THEN Some(<< RGB(Unwrap(b), Unwrap(g), Unwrap(bl)), 4 >>)
                 ELSE None
        ELSE None

\* ConsumeParts with 0 resetting the colours along with the font style.
RECURSIVE ConsumeParts_reset_all(_, _)
ConsumeParts_reset_all(parts, st) ==
    IF parts = << >> THEN st
    ELSE
    LET t == Head(parts)
        rest == Tail(parts)
        ext == ExtendedColor(rest)
    IN  CASE t = 0 ->
                ConsumeParts_reset_all(rest, Style(None, None, FontStyle_default))
          [] t = 1 -> ConsumeParts_reset_all(rest, [st EXCEPT !.font_style.bold = TRUE])
          [] t = 3 -> ConsumeParts_reset_all(rest, [st EXCEPT !.font_style.italic = TRUE])
          [] t = 4 ->
                ConsumeParts_reset_all(rest, [st EXCEPT !.font_style.underline = TRUE])
          [] t \in 30..37 ->
                ConsumeParts_reset_all(rest,
                    [st EXCEPT !.foreground = Some(NamedColor(t - 30))])
          [] t = 38 ->
                IF IsSome(ext)
                THEN ConsumeParts_reset_all(SubSeq(rest, Unwrap(ext)[2] + 1, Len(rest)),
                                            [st EXCEPT !.foreground = Some(Unwrap(ext)[1])])
                ELSE st
          [] t = 39 -> ConsumeParts_reset_all(rest, [st EXCEPT !.foreground = None])
          [] t \in 40..47 ->
                ConsumeParts_reset_all(rest,
                    [st EXCEPT !.background = Some(NamedColor(t - 40))])
          [] t = 48 ->
                IF IsSome(ext)
                THEN ConsumeParts_reset_all(SubSeq(rest, Unwrap(ext)[2] + 1, Len(rest)),
                                            [st EXCEPT !.background = Some(Unwrap(ext)[1])])
                ELSE st
          [] t = 49 -> ConsumeParts_reset_all(rest, [st EXCEPT !.background = None])
          [] OTHER -> st

\* The loop of from_ansi_sequence over the parsed parts, from the style st.
RECURSIVE ConsumeParts(_, _)
ConsumeParts(parts, st) ==
    IF parts = << >> THEN st
    ELSE
    LET t == Head(parts)
        rest == Tail(parts)
        ext == ExtendedColor(rest)
    IN  CASE t = 0 -> ConsumeParts(rest, [st EXCEPT !.font_style = FontStyle_default])
          [] t = 1 -> ConsumeParts(rest, [st EXCEPT !.font_style.bold = TRUE])
          [] t = 3 -> ConsumeParts(rest, [st EXCEPT !.font_style.italic = TRUE])
          [] t = 4 -> ConsumeParts(rest, [st EXCEPT !.font_style.underline = TRUE])
          [] t \in 30..37 ->
                ConsumeParts(rest, [st EXCEPT !.foreground = Some(NamedColor(t - 30))])
          [] t = 38 ->
                IF IsSome(ext)
                THEN ConsumeParts(SubSeq(rest, Unwrap(ext)[2] + 1, Len(rest)),
                                  [st EXCEPT !.foreground = Some(Unwrap(ext)[1])])
                ELSE st
          [] t = 39 -> ConsumeParts(rest, [st EXCEPT !.foreground = None])
          [] t \in 40..47 ->
                ConsumeParts(rest, [st EXCEPT !.background = Some(NamedColor(t - 40))])
          [] t = 48 ->
                IF IsSome(ext)
                THEN ConsumeParts(SubSeq(rest, Unwrap(ext)[2] + 1, Len(rest)),
                                  [st EXCEPT !.background = Some(Unwrap(ext)[1])])
                ELSE st
          [] t = 49 -> ConsumeParts(rest, [st EXCEPT !.background = None])
          [] OTHER -> st

\* from_ansi_sequence dropping the tokens that are no u8 (filter_map in place of
\* map and collect::<Option<_>>) and building the style from the others.
from_ansi_sequence_filter_map(code) ==
    LET tokens == split(code, ";")
        good == SelectSeq(tokens, LAMBDA tok : IsSome(u8_from_str_radix(tok)))
    IN  Some(ConsumeParts([i \in 1..Len(good) |-> Unwrap(u8_from_str_radix(good[i]))],
                          Style(None, None, FontStyle_default)))

\* Style::from_ansi_sequence: None when a token is no u8, else the style the
\* loop builds.
from_ansi_sequence(code) ==
    LET tokens == split(code, ";")
        parsed == [i \in 1..Len(tokens) |-> u8_from_str_radix(tokens[i])]
    IN  IF \E i \in 1..Len(tokens) : parsed[i] = None
        THEN None
        ELSE Some(ConsumeParts([i \in 1..Len(tokens) |-> Unwrap(parsed[i])],
                               Style(None, None, FontStyle_default)))

(***************************************************************************)
(* src/lib.rs                                                              *)
(***************************************************************************)
Indicators ==
    { "Normal", "RegularFile", "Directory", "SymbolicLink", "FIFO", "Socket",
      "Door", "BlockDevice", "CharacterDevice", "OrphanedSymbolicLink", "Setuid",
      "Setgid", "Sticky", "OtherWritable", "StickyAndOtherWritable",
      "ExecutableFile", "MissingFile", "Capabilities", "MultipleHardLinks",
      "LeftCode", "RightCode", "EndCode", "Reset", "ClearLine" }

\* Indicator::from
Indicator_from(indicator) ==
    CASE indicator = "no" -> Some("Normal")
      [] indicator = "fi" -> Some("RegularFile")
      [] indicator = "di" -> Some("Directory")
      [] indicator = "ln" -> Some("SymbolicLink")
      [] indicator = "pi" -> Some("FIFO")
      [] indicator = "so" -> Some("Socket")
      [] indicator = "do" -> Some("Door")
      [] indicator = "bd" -> Some("BlockDevice")
      [] indicator = "cd" -> Some("CharacterDevice")
      [] indicator = "or" -> Some("OrphanedSymbolicLink")
      [] indicator = "su" -> Some("Setuid")
      [] indicator = "sg" -> Some("Setgid")
      [] indicator = "st" -> Some("Sticky")
      [] indicator = "ow" -> Some("OtherWritable")
      [] indicator = "tw" -> Some("StickyAndOtherWritable")
      [] indicator = "ex" -> Some("ExecutableFile")
      [] indicator = "mi" -> Some("MissingFile")
      [] indicator = "ca" -> Some("Capabilities")
      [] indicator = "mh" -> Some("MultipleHardLinks")
      [] indicator = "lc" -> Some("LeftCode")
      [] indicator = "rc" -> Some("RightCode")
      [] indicator = "ec" -> Some("EndCode")
      [] indicator = "rs" -> Some("Reset")
      [] indicator = "cl" -> Some("ClearLine")
      [] OTHER -> None

LS_COLORS_DEFAULT ==
    "rs=0:di=01;34:ln=01;36:mh=00:pi=40;33:so=01;35:do=01;35:bd=40;33;01:cd=40;33;01:or=40;31;01:mi=00:su=37;41:sg=30;43:ca=30;41:tw=30;42:ow=34;42:st=37;44:ex=01;32:*.tar=01;31:*.tgz=01;31:*.arc=01;31:*.arj=01;31:*.taz=01;31:*.lha=01;31:*.lz4=01;31:*.lzh=01;31:*.lzma=01;31:*.tlz=01;31:*.txz=01;31:*.tzo=01;31:*.t7z=01;31:*.zip=01;31:*.z=01;31:*.dz=01;31:*.gz=01;31:*.lrz=01;31:*.lz=01;31:*.lzo=01;31:*.xz=01;31:*.zst=01;31:*.tzst=01;31:*.bz2=01;31:*.bz=01;31:*.tbz=01;31:*.tbz2=01;31:*.tz=01;31:*.deb=01;31:*.rpm=01;31:*.jar=01;31:*.war=01;31:*.ear=01;31:*.sar=01;31:*.rar=01;31:*.alz=01;31:*.ace=01;31:*.zoo=01;31:*.cpio=01;31:*.7z=01;31:*.rz=01;31:*.cab=01;31:*.wim=01;31:*.swm=01;31:*.dwm=01;31:*.esd=01;31:*.jpg=01;35:*.jpeg=01;35:*.mjpg=01;35:*.mjpeg=01;35:*.gif=01;35:*.bmp=01;35:*.pbm=01;35:*.pgm=01;35:*.ppm=01;35:*.tga=01;35:*.xbm=01;35:*.xpm=01;35:*.tif=01;35:*.tiff=01;35:*.png=01;35:*.svg=01;35:*.svgz=01;35:*.mng=01;35:*.pcx=01;35:*.mov=01;35:*.mpg=01;35:*.mpeg=01;35:*.m2v=01;35:*.mkv=01;35:*.webm=01;35:*.ogm=01;35:*.mp4=01;35:*.m4v=01;35:*.mp4v=01;35:*.vob=01;35:*.qt=01;35:*.nuv=01;35:*.wmv=01;35:*.asf=01;35:*.rm=01;35:*.rmvb=01;35:*.flc=01;35:*.avi=01;35:*.fli=01;35:*.flv=01;35:*.gl=01;35:*.dl=01;35:*.xcf=01;35:*.xwd=01;35:*.yuv=01;35:*.cgm=01;35:*.emf=01;35:*.ogv=01;35:*.ogx=01;35:*.aac=00;36:*.au=00;36:*.flac=00;36:*.m4a=00;36:*.mid=00;36:*.midi=00;36:*.mka=00;36:*.mp3=00;36:*.mpc=00;36:*.ogg=00;36:*.ra=00;36:*.wav=00;36:*.oga=00;36:*.opus=00;36:*.spx=00;36:*.xspf=00;36:"

AsciiUpper == "ABCDEFGHIJKLMNOPQRSTUVWXYZ"
AsciiLower == "abcdefghijklmnopqrstuvwxyz"

\* u8::to_ascii_lowercase on one character: A-Z to a-z, anything else as it is.
char_to_ascii_lowercase(ch) ==
    IF \E i \in 1..26 : CharAt(AsciiUpper, i) = ch
    THEN CharAt(AsciiLower, CHOOSE i \in 1..26 : CharAt(AsciiUpper, i) = ch)
    ELSE ch

\* str::to_ascii_lowercase
RECURSIVE to_ascii_lowercase(_)
to_ascii_lowercase(s) ==
    IF s = "" THEN ""
    ELSE char_to_ascii_lowercase(Head(s)) \o to_ascii_lowercase(Tail(s))

\* str::strip_prefix('*')
strip_prefix_star(s) ==
    IF s # "" /\ Head(s) = "*" THEN Some(Tail(s)) ELSE None

\* str::ends_with
ends_with(s, suffix) ==
    /\ Len(suffix) <= Len(s)
    /\ SubSeq(s, Len(s) - Len(suffix) + 1, Len(s)) = suffix

\* HashMap::get, insert, remove and contains_key on indicator_mapping, a
\* function from the indicators that have a mapping to their styles.
map_get(m, k) == IF k \in DOMAIN m THEN Some(m[k]) ELSE None
map_insert(m, k, v) == [x \in DOMAIN m \cup {k} |-> IF x = k THEN v ELSE m[x]]
map_remove(m, k) == [x \in DOMAIN m \ {k} |-> m[x]]

\* LsColors::empty
LsColors_empty == [indicator_mapping |-> << >>, suffix_mapping |-> << >>]

\* add_entry storing the suffix as it is written, without lowercasing it.
add_entry_keep_case(self, whole) ==
    LET parts == split(whole, "=")
    IN  IF Len(parts) < 2 THEN self
        ELSE
        LET entry == parts[1]
            ansi_style == parts[2]
            style == from_ansi_sequence(ansi_style)
            suffix == strip_prefix_star(entry)
            indicator == Indicator_from(entry)
        IN  IF IsSome(suffix)
            THEN IF IsSome(style)
                 THEN [self EXCEPT !.suffix_mapping =
                          Append(@, << Unwrap(suffix), Unwrap(style) >>)]
                 ELSE self
            ELSE IF IsSome(indicator)
            THEN IF IsSome(style)
                 THEN [self EXCEPT !.indicator_mapping =
                          map_insert(@, Unwrap(indicator), Unwrap(style))]
                 ELSE [self EXCEPT !.indicator_mapping = map_remove(@, Unwrap(indicator))]
            ELSE self

\* add_entry taking a value that parses to the all-default style (`0`, `00`) as
\* no style: the mapping of the indicator is removed.
add_entry_default_unsets(self, whole) ==
    LET parts == split(whole, "=")
    IN  IF Len(parts) < 2 THEN self
        ELSE
        LET entry == parts[1]
            ansi_style == parts[2]
            parsed == from_ansi_sequence(ansi_style)
            style == IF parsed = Some(Style(None, None, FontStyle_default))
                     THEN None ELSE parsed
            suffix == strip_prefix_star(entry)
            indicator == Indicator_from(entry)
        IN  IF IsSome(suffix)
            THEN IF IsSome(style)
                 THEN [self EXCEPT !.suffix_mapping =
                          Append(@, << to_ascii_lowercase(Unwrap(suffix)), Unwrap(style) >>)]
                 ELSE self
            ELSE IF IsSome(indicator)
            THEN IF IsSome(style)
                 THEN [self EXCEPT !.indicator_mapping =
                          map_insert(@, Unwrap(indicator), Unwrap(style))]
                 ELSE [self EXCEPT !.indicator_mapping = map_remove(@, Unwrap(indicator))]
            ELSE self

\* add_entry taking an entry without `=` that is an indicator key (`di`) as that
\* key given no value: the mapping of the indicator is removed.
add_entry_bare_key_unsets(self, whole) ==
    LET parts == split(whole, "=")
    IN  IF Len(parts) < 2
        THEN IF IsSome(Indicator_from(whole))
             THEN [self EXCEPT !.indicator_mapping =
                      map_remove(@, Unwrap(Indicator_from(whole)))]
             ELSE self
        ELSE
        LET entry == parts[1]
            ansi_style == parts[2]
            style == from_ansi_sequence(ansi_style)
            suffix == strip_prefix_star(entry)
            indicator == Indicator_from(entry)
        IN  IF IsSome(suffix)
            THEN IF IsSome(style)
                 THEN [self EXCEPT !.suffix_mapping =
                          Append(@, << to_ascii_lowercase(Unwrap(suffix)), Unwrap(style) >>)]
                 ELSE self
            ELSE IF IsSome(indicator)
            THEN IF IsSome(style)
                 THEN [self EXCEPT !.indicator_mapping =
                          map_insert(@, Unwrap(indicator), Unwrap(style))]
                 ELSE [self EXCEPT !.indicator_mapping = map_remove(@, Unwrap(indicator))]
            ELSE self

\* add_entry skipping an indicator entry whose value does not parse, as it
\* skips a suffix entry: the mapping of the indicator is kept.
add_entry_bad_value_skips(self, whole) ==
    LET parts == split(whole, "=")
    IN  IF Len(parts) < 2 THEN self
        ELSE
        LET entry == parts[1]
            ansi_style == parts[2]
            style == from_ansi_sequence(ansi_style)
            suffix == strip_prefix_star(entry)
            indicator == Indicator_from(entry)
        IN  IF IsSome(suffix)
            THEN IF IsSome(style)
                 THEN [self EXCEPT !.suffix_mapping =
                          Append(@, << to_ascii_lowercase(Unwrap(suffix)), Unwrap(style) >>)]
                 ELSE self
            ELSE IF IsSome(indicator)
            THEN IF IsSome(style)
                 THEN [self EXCEPT !.indicator_mapping =
                          map_insert(@, Unwrap(indicator), Unwrap(style))]
                 ELSE self
            ELSE self

\* The body of the loop of add_from_string: one entry applied to self.
add_entry(self, whole) ==
    LET parts == split(whole, "=")
    IN  IF Len(parts) < 2 THEN self
        ELSE
        LET entry == parts[1]
            ansi_style == parts[2]
            style == from_ansi_sequence(ansi_style)
            suffix == strip_prefix_star(entry)
            indicator == Indicator_from(entry)
        IN  IF IsSome(suffix)
            THEN IF IsSome(style)
                 THEN [self EXCEPT !.suffix_mapping =
                          Append(@, << to_ascii_lowercase(Unwrap(suffix)), Unwrap(style) >>)]
                 ELSE self
            ELSE IF IsSome(indicator)
            THEN IF IsSome(style)
                 THEN [self EXCEPT !.indicator_mapping =
                          map_insert(@, Unwrap(indicator), Unwrap(style))]
                 ELSE [self EXCEPT !.indicator_mapping = map_remove(@, Unwrap(indicator))]
            ELSE self

\* The loop of add_from_string over entries[lo..hi]: the entries are applied in
\* order, first the lower half and then, to its result, the upper half.
RECURSIVE add_entries(_, _, _, _)
add_entries(self, entries, lo, hi) ==
    IF lo > hi THEN self
    ELSE IF lo = hi THEN add_entry(self, entries[lo])
    ELSE LET mid == (lo + hi) \div 2
             lower == add_entries(self, entries, lo, mid)
         IN  IF lower = self
             THEN add_entries(self, entries, mid + 1, hi)
             ELSE add_entries(lower, entries, mid + 1, hi)

\* LsColors::add_from_string
add_from_string(self, config) ==
    LET entries == split(config, ":")
    IN  add_entries(self, entries, 1, Len(entries))

\* LsColors::default
LsColors_default == add_from_string(LsColors_empty, LS_COLORS_DEFAULT)

\* LsColors::from_string
from_string(config) == add_from_string(LsColors_default, config)

\* LsColors::has_color_for
has_color_for(self, indicator) == indicator \in DOMAIN self.indicator_mapping

\* The fallback table with MissingFile sent straight to SymbolicLink.
fallback_missing_to_link(indicator) ==
    CASE indicator \in {"Setuid", "Setgid", "ExecutableFile", "MultipleHardLinks"} ->
            "RegularFile"
      [] indicator \in {"StickyAndOtherWritable", "OtherWritable", "Sticky"} ->
            "Directory"
      [] indicator = "OrphanedSymbolicLink" -> "SymbolicLink"
      [] indicator = "MissingFile" -> "SymbolicLink"
      [] OTHER -> indicator

\* The fallback table of style_for_indicator.
fallback(indicator) ==
    CASE indicator \in {"Setuid", "Setgid", "ExecutableFile", "MultipleHardLinks"} ->
            "RegularFile"
      [] indicator \in {"StickyAndOtherWritable", "OtherWritable", "Sticky"} ->
            "Directory"
      [] indicator = "OrphanedSymbolicLink" -> "SymbolicLink"
      [] indicator = "MissingFile" -> "OrphanedSymbolicLink"
      [] OTHER -> indicator

\* Option::or_else
or_else(o, alt) == IF IsSome(o) THEN o ELSE alt

\* style_for_indicator following the fallback table a second time before it
\* tries Normal.
style_for_indicator_chained(self, indicator) ==
    or_else(or_else(or_else(map_get(self.indicator_mapping, indicator),
                            map_get(self.indicator_mapping, fallback(indicator))),
                    map_get(self.indicator_mapping, fallback(fallback(indicator)))),
            map_get(self.indicator_mapping, "Normal"))

\* LsColors::style_for_indicator
style_for_indicator(self, indicator) ==
    or_else(or_else(map_get(self.indicator_mapping, indicator),
                    map_get(self.indicator_mapping, fallback(indicator))),
            map_get(self.indicator_mapping, "Normal"))

(***************************************************************************)
(* Paths and metadata, as the lookups read them.                           *)
(***************************************************************************)
\* An OsStr: its text, and whether it is valid UTF-8 (OsStr::to_str is Some).
OsStr(text) == [text |-> text, utf8 |-> TRUE]
NonUtf8(text) == [text |-> text, utf8 |-> FALSE]

\* std::path::Component
Normal(os_str) == [kind |-> "Normal", os_str |-> os_str]
RootDir == [kind |-> "RootDir", os_str |-> OsStr("/")]
CurDir == [kind |-> "CurDir", os_str |-> OsStr(".")]
ParentDir == [kind |-> "ParentDir", os_str |-> OsStr("..")]

\* Path::file_name: the last component when it is a Normal one.
file_name(path) ==
    IF path # << >> /\ path[Len(path)].kind = "Normal"
    THEN Some(path[Len(path)].os_str)
    ELSE None

\* OsStr::to_str
to_str(os_str) == IF os_str.utf8 THEN Some(os_str.text) ELSE None

\* std::fs::Metadata: the file type, the mode bits and the link count.
Metadata(file_type, mode, nlink) ==
    [file_type |-> file_type, mode |-> mode, nlink |-> nlink]

\* crate::fs::mode and crate::fs::nlink (unix)
fs_mode(metadata) == metadata.mode
fs_nlink(metadata) == metadata.nlink

\* The bitwise and of two naturals.
RECURSIVE BitAnd(_, _)
BitAnd(a, b) ==
    IF a = 0 \/ b = 0 THEN 0
    ELSE (a % 2) * (b % 2) + 2 * BitAnd(a \div 2, b \div 2)

S_ISUID == 2048
S_ISGID == 1024
S_IXUGO == 73
S_ISVTX_IWOTH == 514
S_IWOTH == 2
S_ISVTX == 512

\* indicator_for_file without the has_color_for gates: an attribute present on
\* the file classifies it whether or not it has a mapping.
indicator_for_file_ungated(self, mode, nlink) ==
    IF BitAnd(mode, S_ISUID) # 0 THEN "Setuid"
    ELSE IF BitAnd(mode, S_ISGID) # 0 THEN "Setgid"
    ELSE IF BitAnd(mode, S_IXUGO) # 0 THEN "ExecutableFile"
    ELSE IF nlink > 1 THEN "MultipleHardLinks"
    ELSE "RegularFile"

\* LsColors::indicator_for, file_type.is_file()
indicator_for_file(self, mode, nlink) ==
    IF has_color_for(self, "Setuid") /\ BitAnd(mode, S_ISUID) # 0
    THEN "Setuid"
    ELSE IF has_color_for(self, "Setgid") /\ BitAnd(mode, S_ISGID) # 0
    THEN "Setgid"
    ELSE IF has_color_for(self, "ExecutableFile") /\ BitAnd(mode, S_IXUGO) # 0
    THEN "ExecutableFile"
    ELSE IF has_color_for(self, "MultipleHardLinks") /\ nlink > 1
    THEN "MultipleHardLinks"
    ELSE "RegularFile"

\* indicator_for_dir testing other-writable before sticky and other-writable.
indicator_for_dir_reordered(self, mode) ==
    IF has_color_for(self, "OtherWritable") /\ BitAnd(mode, S_IWOTH) # 0
    THEN "OtherWritable"
    ELSE IF has_color_for(self, "StickyAndOtherWritable")
            /\ BitAnd(mode, S_ISVTX_IWOTH) = S_ISVTX_IWOTH
    THEN "StickyAndOtherWritable"
    ELSE IF has_color_for(self, "Sticky") /\ BitAnd(mode, S_ISVTX) # 0
    THEN "Sticky"
    ELSE "Directory"

\* LsColors::indicator_for, file_type.is_dir()
indicator_for_dir(self, mode) ==
    IF has_color_for(self, "StickyAndOtherWritable")
       /\ BitAnd(mode, S_ISVTX_IWOTH) = S_ISVTX_IWOTH
    THEN "StickyAndOtherWritable"
    ELSE IF has_color_for(self, "OtherWritable") /\ BitAnd(mode, S_IWOTH) # 0
    THEN "OtherWritable"
    ELSE IF has_color_for(self, "Sticky") /\ BitAnd(mode, S_ISVTX) # 0
    THEN "Sticky"
    ELSE "Directory"

\* indicator_for_symlink with the test of path.exists() inverted.
indicator_for_symlink_inverted(self, exists) ==
    IF has_color_for(self, "OrphanedSymbolicLink") /\ exists
    THEN "OrphanedSymbolicLink"
    ELSE "SymbolicLink"

\* LsColors::indicator_for, file_type.is_symlink(); exists is what path.exists()
\* answers.
indicator_for_symlink(self, exists) ==
    IF has_color_for(self, "OrphanedSymbolicLink") /\ ~exists
    THEN "OrphanedSymbolicLink"
    ELSE "SymbolicLink"

\* LsColors::indicator_for
indicator_for(self, exists, metadata) ==
    IF IsSome(metadata)
    THEN LET md == Unwrap(metadata)
         IN  CASE md.file_type = "file" ->
                    indicator_for_file(self, fs_mode(md), fs_nlink(md))
               [] md.file_type = "dir" -> indicator_for_dir(self, fs_mode(md))
               [] md.file_type = "symlink" -> indicator_for_symlink(self, exists)
               [] md.file_type = "fifo" -> "FIFO"
               [] md.file_type = "socket" -> "Socket"
               [] md.file_type = "block_device" -> "BlockDevice"
               [] md.file_type = "char_device" -> "CharacterDevice"
               [] OTHER -> "MissingFile"
    ELSE "RegularFile"

\* rev_find scanning suffix_mapping from the front: the first entry wins.
rev_find_forward(suffix_mapping, filename) ==
    LET hits == {i \in 1..Len(suffix_mapping) :
                    ends_with(filename, suffix_mapping[i][1])}
    IN  IF hits = {} THEN None
        ELSE Some(suffix_mapping[CHOOSE i \in hits : \A j \in hits : i <= j][2])

\* The loop over suffix_mapping.iter().rev(): the style of the last entry whose
\* suffix ends filename, if any.
rev_find(suffix_mapping, filename) ==
    LET hits == {i \in 1..Len(suffix_mapping) :
                    ends_with(filename, suffix_mapping[i][1])}
    IN  IF hits = {} THEN None
        ELSE Some(suffix_mapping[CHOOSE i \in hits : \A j \in hits : j <= i][2])

\* LsColors::style_for_path_with_metadata; each `?` returns None at once.
style_for_path_with_metadata(self, path, exists, metadata) ==
    LET indicator == indicator_for(self, exists, metadata)
        name == file_name(path)
        text == to_str(Unwrap(name))
        found == rev_find(self.suffix_mapping, to_ascii_lowercase(Unwrap(text)))
    IN  IF indicator = "RegularFile"
        THEN IF name = None THEN None
             ELSE IF text = None THEN None
             ELSE IF IsSome(found) THEN found
             ELSE style_for_indicator(self, indicator)
        ELSE style_for_indicator(self, indicator)

(***************************************************************************)
(* The state machine: a value is built by one of the three constructors    *)
(* and is read-only from then on; the actions are the lookups made on it.  *)
(***************************************************************************)
NoCall == [op |-> "none"]

\* LsColors::empty(), LsColors::default() or LsColors::from_string(config).
Construct(configs) ==
    /\ call = NoCall
    /\ styled_components = None
    /\ \/ /\ ctor = "empty"
          /\ input = ""
          /\ lscolors = LsColors_empty
       \/ /\ ctor = "default"
          /\ input = ""
          /\ lscolors = LsColors_default
       \/ /\ ctor = "from_string"
          /\ input \in configs
          /\ lscolors = from_string(input)

StyleForIndicator(indicator) ==
    /\ call' = [op |-> "style_for_indicator",
                indicator |-> indicator,
                ret |-> style_for_indicator(lscolors, indicator)]
    /\ UNCHANGED <<lscolors, ctor, input, styled_components>>

StyleForPathWithMetadata(path, exists, metadata) ==
    /\ call' = [op |-> "style_for_path_with_metadata",
                path |-> path,
                exists |-> exists,
                metadata |-> metadata,
                indicator |-> indicator_for(lscolors, exists, metadata),
                ret |-> style_for_path_with_metadata(lscolors, path, exists, metadata)]
    /\ UNCHANGED <<lscolors, ctor, input, styled_components>>

\* The lookups, over the paths, file-system answers and indicators given.
Lookup(paths, files, indicators) ==
    \/ \E indicator \in indicators : StyleForIndicator(indicator)
    \/ \E path \in paths, file \in files :
          StyleForPathWithMetadata(path, file.exists, file.metadata)

\* What the file system answers for one path: symlink_metadata and exists.
File(metadata, exists) == [metadata |-> metadata, exists |-> exists]

\* A path that has no metadata, and a regular file rw-r--r-- with one link.
NoMetadata == File(None, FALSE)
PlainFile == File(Some(Metadata("file", 420, 1)), TRUE)

\* The configuration strings of 1..n entries of pool, joined by `:`.
RECURSIVE ConfigsOf(_, _)
ConfigsOf(pool, n) ==
    IF n <= 1 THEN pool
    ELSE LET shorter == ConfigsOf(pool, n - 1)
         IN  shorter \cup {c \o ":" \o e : c \in shorter, e \in pool}

\* The text of the final component of the path of the last lookup.
CallName == call.path[Len(call.path)].os_str.text

\* The last lookup was style_for_path_with_metadata on a path classified
\* RegularFile whose final component is a file name that is valid text.
CallOnRegularFile ==
    /\ call.op = "style_for_path_with_metadata"
    /\ call.indicator = "RegularFile"
    /\ call.path[Len(call.path)].kind = "Normal"
    /\ call.path[Len(call.path)].os_str.utf8

\* suffix is an ending of text.
IsEnding(suffix, text) ==
    \E k \in 0..Len(text) : SubSeq(text, k + 1, Len(text)) = suffix

BoldPurple == Style(Some(Purple), None, FontStyle_bold)
YellowOnBlue == Style(Some(Yellow), Some(Blue), FontStyle_default)

(***************************************************************************)
(* SpecSuffix: suffix entries on top of the baseline, and lookups of file  *)
(* names.                                                                  *)
(***************************************************************************)
SuffixEntries ==
    { "*.foo=01;35", "*README.foo=33;44", "*.foo=04", "*.O=01;35", "*.tar=32",
      "*.É=36" }

SuffixConfigs == ConfigsOf(SuffixEntries, MaxEntries)

SuffixPaths ==
    { << Normal(OsStr("some")), Normal(OsStr("folder")), Normal(OsStr("dummy.foo")) >>,
      << Normal(OsStr("README.foo")) >>,
      << Normal(OsStr("artifact.o")) >>,
      << Normal(OsStr("ARTIFACT.O")) >>,
      << Normal(OsStr("x.tar")) >>,
      << Normal(OsStr("a.É")) >>,
      << Normal(OsStr("a.é")) >> }

InitSuffix == Construct(SuffixConfigs)
NextSuffix == Lookup(SuffixPaths, {NoMetadata, PlainFile}, {"RegularFile"})
SpecSuffix == InitSuffix /\ [][NextSuffix]_vars

\* C1: for a path classified RegularFile with a text file name,
\* style_for_path_with_metadata returns the style of the most recently appended
\* suffix entry whose suffix is an ending of the lowercased file name, whatever
\* the suffix lengths: of two entries with the same suffix the later one wins, a
\* user entry shadows a baseline entry, and with `*.foo=X:*README.foo=Y`
\* dummy.foo gets X and README.foo gets Y.
C1_SuffixPrecedence ==
    CallOnRegularFile =>
        LET sm == lscolors.suffix_mapping
            name == to_ascii_lowercase(CallName)
            matching == {i \in 1..Len(sm) : IsEnding(sm[i][1], name)}
        IN  /\ \A i \in matching :
                  (\A j \in matching : j <= i) => call.ret = Some(sm[i][2])
            /\ (ctor = "from_string" /\ input = "*.foo=01;35:*README.foo=33;44")
                  => /\ CallName = "dummy.foo" => call.ret = Some(BoldPurple)
                     /\ CallName = "README.foo" => call.ret = Some(YellowOnBlue)
            /\ (ctor = "from_string" /\ input = "*.foo=01;35:*.foo=04"
                                     /\ CallName = "dummy.foo")
                  => call.ret = Some(Style(None, None, FontStyle_underline))
            /\ (ctor = "from_string" /\ input = "*.tar=32" /\ CallName = "x.tar")
                  => call.ret = Some(Style(Some(Green), None, FontStyle_default))

\* README.foo was looked up under `*.foo=01;35:*README.foo=33;44` and got the
\* style of the later entry.
C1_Witness ==
    /\ CallOnRegularFile
    /\ ctor = "from_string"
    /\ input = "*.foo=01;35:*README.foo=33;44"
    /\ CallName = "README.foo"
    /\ call.ret = Some(YellowOnBlue)

\* The letters of the file names and suffixes above that have a lowercase form:
\* A-Z and, outside ASCII, É.
UpperLetters == AsciiUpper \o "É"

HasLetterOf(s, letters) ==
    \E i \in 1..Len(s), u \in 1..Len(letters) : CharAt(s, i) = CharAt(letters, u)

\* C10 as stated: after any sequence of applied configuration strings (in the
\* state the constructor leaves; no lookup changes lscolors) every stored suffix
\* is lowercase, and matching against the lowercased file name is
\* case-insensitive in both directions: `*.O=X` gives X to artifact.o and
\* ARTIFACT.O.
C10_AllLowercase ==
    /\ call = NoCall =>
          \A i \in 1..Len(lscolors.suffix_mapping) :
              ~HasLetterOf(lscolors.suffix_mapping[i][1], UpperLetters)
    /\ ( /\ CallOnRegularFile
         /\ ctor = "from_string"
         /\ input = "*.O=01;35"
         /\ CallName \in {"artifact.o", "ARTIFACT.O"} )
       => call.ret = Some(BoldPurple)

\* C10, amended: every stored suffix is ASCII-lowercase (it holds none of A-Z;
\* a letter outside ASCII is stored as written), and matching compares it with
\* the ASCII-lowercased file name, so matching ignores the case of ASCII letters
\* only: `*.O=X` gives X to artifact.o and ARTIFACT.O, while `*.É=X` gives X to
\* a.É and not to a.é.
C10_AsciiLowercase ==
    /\ call = NoCall =>
          \A i \in 1..Len(lscolors.suffix_mapping) :
              ~HasLetterOf(lscolors.suffix_mapping[i][1], AsciiUpper)
    /\ ( /\ CallOnRegularFile
         /\ ctor = "from_string"
         /\ input = "*.O=01;35"
         /\ CallName \in {"artifact.o", "ARTIFACT.O"} )
       => call.ret = Some(BoldPurple)
    /\ ( /\ CallOnRegularFile
         /\ ctor = "from_string"
         /\ input = "*.É=36" )
       => /\ CallName = "a.É" =>
                call.ret = Some(Style(Some(Cyan), None, FontStyle_default))
          /\ CallName = "a.é" => call.ret = None

\* ARTIFACT.O was looked up under `*.O=01;35`, stored as `.o`, and got its style.
C10_Witness ==
    /\ CallOnRegularFile
    /\ ctor = "from_string"
    /\ input = "*.O=01;35"
    /\ CallName = "ARTIFACT.O"
    /\ lscolors.suffix_mapping[Len(lscolors.suffix_mapping)][1] = ".o"
    /\ call.ret = Some(BoldPurple)

(***************************************************************************)
(* Spec: indicator entries on top of the baseline, and style_for_indicator *)
(* on every indicator.                                                     *)
(***************************************************************************)
IndicatorKeys ==
    { "no", "fi", "di", "ln", "pi", "so", "do", "bd", "cd", "or", "su", "sg",
      "st", "ow", "tw", "ex", "mi", "ca", "mh", "lc", "rc", "ec", "rs", "cl" }

\* The key of an indicator, and the key of the fallback of the indicator of a key.
KeyOf(indicator) == CHOOSE k \in IndicatorKeys : Indicator_from(k) = Some(indicator)
FallbackKey(k) == KeyOf(fallback(Unwrap(Indicator_from(k))))

\* Values whose tokens are all integers 0..255.
SgrValues == {"0", "00", "01;34"}

\* `k=v` alone, after `k=x` (which removes the mapping of k) and after `k=35`.
ApplyConfigs ==
    UNION { { k \o "=" \o v,
              k \o "=x:" \o k \o "=" \o v,
              k \o "=35:" \o k \o "=" \o v } :
            k \in IndicatorKeys, v \in SgrValues }

\* The mapping of k removed, with the mapping of its fallback removed, set or
\* left as the baseline has it, and the mapping of Normal set or left unset.
ResolveConfigs ==
    UNION { { no \o fb \o k \o "=x" :
                no \in {"", "no=04:"},
                fb \in {"", FallbackKey(k) \o "=x:", FallbackKey(k) \o "=32:"} } :
            k \in IndicatorKeys }

IndicatorConfigs == ApplyConfigs \cup ResolveConfigs

Init == Construct(IndicatorConfigs)
Next == Lookup({ << Normal(OsStr("file")) >> }, {PlainFile}, Indicators)
Spec == Init /\ [][Next]_vars

\* input ends with the entry e: it is e, or it ends with `:e`.
LastEntryIs(e) == input = e \/ ends_with(input, ":" \o e)

\* The styles the values of SgrValues stand for.
C2_StyleOf(v) ==
    CASE v = "0" -> Style(None, None, FontStyle_default)
      [] v = "00" -> Style(None, None, FontStyle_default)
      [] v = "01;34" -> Style(Some(Blue), None, FontStyle_bold)

C3_Designated(i) ==
    CASE i = "Setuid" -> "RegularFile"
      [] i = "Setgid" -> "RegularFile"
      [] i = "ExecutableFile" -> "RegularFile"
      [] i = "MultipleHardLinks" -> "RegularFile"
      [] i = "StickyAndOtherWritable" -> "Directory"
      [] i = "OtherWritable" -> "Directory"
      [] i = "Sticky" -> "Directory"
      [] i = "OrphanedSymbolicLink" -> "SymbolicLink"
      [] i = "MissingFile" -> "OrphanedSymbolicLink"
      [] OTHER -> i

\* C3: style_for_indicator(i) returns i's own mapping if present; otherwise the
\* mapping of i's single designated fallback if present; otherwise the mapping
\* of Normal if present; otherwise nothing.  No other key decides the result.
C3_FallbackChain ==
    call.op = "style_for_indicator" =>
        LET m == lscolors.indicator_mapping
            i == call.indicator
        IN  call.ret =
                IF i \in DOMAIN m THEN << m[i] >>
                ELSE IF C3_Designated(i) \in DOMAIN m THEN << m[C3_Designated(i)] >>
                ELSE IF "Normal" \in DOMAIN m THEN << m["Normal"] >>
                ELSE << >>

\* Setuid was looked up with neither su nor fi mapped and got the style of no.
C3_Witness ==
    /\ call.op = "style_for_indicator"
    /\ call.indicator = "Setuid"
    /\ DOMAIN lscolors.indicator_mapping \cap {"Setuid", "RegularFile"} = {}
    /\ "Normal" \in DOMAIN lscolors.indicator_mapping
    /\ call.ret = Some(Style(None, None, FontStyle_underline))

(***************************************************************************)
(* SpecClassify: the baseline with any set of the attribute indicators     *)
(* unmapped, and lookups of files, directories, links and other nodes.     *)
(***************************************************************************)
AttributeKeys == << "su", "sg", "ex", "mh", "tw", "ow", "st", "or" >>

\* The entries `k=x`, which remove the mapping of k, for the keys of
\* AttributeKeys[from..] whose position is in unset.
RECURSIVE UnsetEntries(_, _)
UnsetEntries(unset, from) ==
    IF from > Len(AttributeKeys) THEN << >>
    ELSE (IF from \in unset THEN << AttributeKeys[from] \o "=x" >> ELSE << >>)
         \o UnsetEntries(unset, from + 1)

\* The entries joined by `:`.
RECURSIVE Join(_)
Join(entries) ==
    IF Len(entries) = 1 THEN entries[1]
    ELSE entries[1] \o ":" \o Join(Tail(entries))

ClassifyConfigs ==
    { Join(UnsetEntries(unset, 1)) : unset \in SUBSET (1..Len(AttributeKeys)) \ {{}} }

\* Regular files rw-r--r--, rwxr-xr-x, setuid, setgid and both (6750, 6640),
\* with one link and with two.
ClassifyRegularFiles ==
    { File(Some(Metadata("file", mode, nlink)), TRUE) :
        mode \in {420, 493, 2541, 1517, 3560, 3488}, nlink \in {1, 2} }

\* Directories rwxr-xr-x, rwxrwxrwt (1777), rwxrwxrwx and rwxr-xr-t (1755).
ClassifyDirectories ==
    { File(Some(Metadata("dir", mode, 2)), TRUE) : mode \in {493, 1023, 511, 1005} }

\* A link whose target exists and one whose target does not.
ClassifySymlinks ==
    { File(Some(Metadata("symlink", 511, 1)), exists) : exists \in BOOLEAN }

ClassifyOthers ==
    { File(Some(Metadata(file_type, 420, 1)), TRUE) :
        file_type \in {"fifo", "socket", "block_device", "char_device", "unknown"} }

ClassifyFiles ==
    ClassifyRegularFiles \cup ClassifyDirectories \cup ClassifySymlinks
    \cup ClassifyOthers \cup {NoMetadata}

InitClassify == Construct(ClassifyConfigs)
NextClassify == Lookup({ << Normal(OsStr("entry")) >> }, ClassifyFiles, {"RegularFile"})
SpecClassify == InitClassify /\ [][NextClassify]_vars

\* The last lookup was style_for_path_with_metadata with metadata of file_type.
CallOnType(file_type) ==
    /\ call.op = "style_for_path_with_metadata"
    /\ call.metadata # None
    /\ call.metadata[1].file_type = file_type

\* Bit b (a power of two) is set in mode.
HasBit(mode, b) == (mode \div b) % 2 = 1

Mapped(indicator) == indicator \in DOMAIN lscolors.indicator_mapping

\* The attribute of a regular file or directory that an indicator stands for is
\* present in the metadata md.
AttributePresent(indicator, md) ==
    CASE indicator = "Setuid" -> HasBit(md.mode, 2048)
      [] indicator = "Setgid" -> HasBit(md.mode, 1024)
      [] indicator = "ExecutableFile" ->
            HasBit(md.mode, 64) \/ HasBit(md.mode, 8) \/ HasBit(md.mode, 1)
      [] indicator = "MultipleHardLinks" -> md.nlink > 1
      [] indicator = "StickyAndOtherWritable" ->
            HasBit(md.mode, 512) /\ HasBit(md.mode, 2)
      [] indicator = "OtherWritable" -> HasBit(md.mode, 2)
      [] indicator = "Sticky" -> HasBit(md.mode, 512)

\* The first indicator of order that is present in md and mapped, else plain.
FirstQualifying(order, md, plain) ==
    LET ok == {n \in 1..Len(order) : AttributePresent(order[n], md) /\ Mapped(order[n])}
    IN  IF ok = {} THEN plain
        ELSE order[CHOOSE n \in ok : \A o \in ok : n <= o]

\* C4: a regular file classifies as the first of Setuid, Setgid, ExecutableFile,
\* MultipleHardLinks that is both present on the file and mapped in the
\* registry, else as RegularFile; a file with the setuid and setgid bits is
\* Setuid when su is mapped and Setgid when only sg is.
C4_RegularFilePriority ==
    CallOnType("file") =>
        LET md == call.metadata[1]
        IN  /\ call.indicator =
                 FirstQualifying(<< "Setuid", "Setgid", "ExecutableFile",
                                    "MultipleHardLinks" >>, md, "RegularFile")
            /\ (md.mode = 3560 /\ Mapped("Setuid")) => call.indicator = "Setuid"
            /\ ( /\ md.mode = 3560
                 /\ Mapped("Setgid")
                 /\ ~Mapped("Setuid") ) => call.indicator = "Setgid"

\* A file with mode 6750 was classified Setgid, su having no mapping.
C4_Witness ==
    /\ CallOnType("file")
    /\ call.metadata[1].mode = 3560
    /\ ~Mapped("Setuid")
    /\ Mapped("Setgid")
    /\ call.indicator = "Setgid"

\* C5: a directory classifies as the first of StickyAndOtherWritable,
\* OtherWritable, Sticky that is both satisfied by the mode bits and mapped, else
\* as Directory; with both bits it is StickyAndOtherWritable whenever tw is
\* mapped, even though ow and st are mapped too.
C5_DirectoryPriority ==
    CallOnType("dir") =>
        LET md == call.metadata[1]
        IN  /\ call.indicator =
                 FirstQualifying(<< "StickyAndOtherWritable", "OtherWritable",
                                    "Sticky" >>, md, "Directory")
            /\ ( /\ HasBit(md.mode, 512)
                 /\ HasBit(md.mode, 2)
                 /\ Mapped("StickyAndOtherWritable") )
               => call.indicator = "StickyAndOtherWritable"

\* A directory with mode 1777 was classified StickyAndOtherWritable with tw, ow
\* and st all mapped.
C5_Witness ==
    /\ CallOnType("dir")
    /\ call.metadata[1].mode = 1023
    /\ Mapped("StickyAndOtherWritable")
    /\ Mapped("OtherWritable")
    /\ Mapped("Sticky")
    /\ call.indicator = "StickyAndOtherWritable"

\* C8: a symbolic link classifies as OrphanedSymbolicLink exactly when or is
\* mapped and the target does not exist, and as SymbolicLink otherwise; under
\* the baseline a broken link gets the style of or (red foreground) and a valid
\* link the style of ln (cyan foreground).
C8_SymlinkClassification ==
    CallOnType("symlink") =>
        /\ call.indicator \in {"OrphanedSymbolicLink", "SymbolicLink"}
        /\ call.indicator = "OrphanedSymbolicLink"
              <=> (Mapped("OrphanedSymbolicLink") /\ ~call.exists)
        /\ ctor = "default" =>
              /\ call.ret # None
              /\ ~call.exists =>
                    /\ call.ret = Some(lscolors.indicator_mapping["OrphanedSymbolicLink"])
                    /\ call.ret[1].foreground = Some(Red)
              /\ call.exists =>
                    /\ call.ret = Some(lscolors.indicator_mapping["SymbolicLink"])
                    /\ call.ret[1].foreground = Some(Cyan)

\* A broken link was looked up under the baseline and got a red foreground.
C8_Witness ==
    /\ CallOnType("symlink")
    /\ ctor = "default"
    /\ ~call.exists
    /\ call.indicator = "OrphanedSymbolicLink"
    /\ call.ret # None
    /\ call.ret[1].foreground = Some(Red)

(***************************************************************************)
(* SpecZero: the entries of the crate's tests style_for_missing_file,      *)
(* style_for_setid and style_for_sticky_other_writable on top of the       *)
(* baseline, and their lookups.                                            *)
(***************************************************************************)
ZeroEntries == {"su=0", "tw=0", "ow=0", "or=33;44", "mi=00", "mi=01"}
ZeroConfigs == ConfigsOf(ZeroEntries, MaxEntries)

\* The file of style_for_setid (mode 6750) and the directory of
\* style_for_sticky_other_writable (mode 1777).
SetidFile == File(Some(Metadata("file", 3560, 1)), TRUE)
StickyDir == File(Some(Metadata("dir", 1023, 2)), TRUE)

InitZero == Construct(ZeroConfigs)
NextZero ==
    Lookup({ << Normal(OsStr("entry")) >> }, {SetidFile, StickyDir},
           {"MissingFile", "OrphanedSymbolicLink"})
SpecZero == InitZero /\ [][NextZero]_vars

\* lscolors was built by from_string(config).
BuiltFrom(config) == ctor = "from_string" /\ input = config

\* C6: an indicator entry whose value is `0` or `00` leaves that indicator
\* without a style of its own, for classification and for resolution alike: on
\* top of the baseline, `su=0` gives a setuid and setgid file the sg style,
\* `tw=0` gives a sticky other-writable directory the ow style, `tw=0:ow=0`
\* gives it the st style, and `or=33;44:mi=00` makes MissingFile resolve to the
\* style of or.
C6_ZeroLeavesUnmapped ==
    /\ \A k \in IndicatorKeys :
          (ctor = "from_string" /\ (LastEntryIs(k \o "=0") \/ LastEntryIs(k \o "=00")))
          => ~Mapped(Unwrap(Indicator_from(k)))
    /\ (BuiltFrom("su=0") /\ CallOnType("file"))
          => call.ret = Some(Style(Some(Black), Some(Yellow), FontStyle_default))
    /\ (BuiltFrom("tw=0") /\ CallOnType("dir"))
          => call.ret = Some(Style(Some(Blue), Some(Green), FontStyle_default))
    /\ (BuiltFrom("tw=0:ow=0") /\ CallOnType("dir"))
          => call.ret = Some(Style(Some(White), Some(Blue), FontStyle_default))
    /\ ( /\ BuiltFrom("or=33;44:mi=00")
         /\ call.op = "style_for_indicator"
         /\ call.indicator = "MissingFile" )
          => call.ret = Some(YellowOnBlue)

\* C7: under from_string, with `mi=01:or=33;44` style_for_indicator(MissingFile)
\* is the style of mi (bold, no colour) and not that of or; with `or=33;44`
\* alone it is the style of or, Yellow on Blue, reached through the fallback of
\* MissingFile to OrphanedSymbolicLink.
C7_MissingFileStyles ==
    (call.op = "style_for_indicator" /\ call.indicator = "MissingFile") =>
        /\ BuiltFrom("mi=01:or=33;44")
              => call.ret = Some(Style(None, None, FontStyle_bold))
        /\ BuiltFrom("or=33;44") => call.ret = Some(YellowOnBlue)

(***************************************************************************)
(* SpecFrame: well-formed and malformed entries on top of the baseline.    *)
(***************************************************************************)
WellFormedEntries == {"ex=01", "*.foo=32", "di=x"}

\* No `=`, empty, and a key that is neither `*...` nor an indicator code.
MalformedEntries == {"di", "", "xx=01"}

FrameConfigs ==
    ConfigsOf(WellFormedEntries \cup MalformedEntries, MaxEntries)
    \cup { a \o ":" \o e \o ":" \o b :
             a \in WellFormedEntries, e \in MalformedEntries, b \in WellFormedEntries }

InitFrame == Construct(FrameConfigs)
NextFrame ==
    Lookup({ << Normal(OsStr("dummy.foo")) >> }, {NoMetadata},
           {"Directory", "ExecutableFile"})
SpecFrame == InitFrame /\ [][NextFrame]_vars

\* text holds part at position p.
HoldsAt(text, p, part) ==
    /\ p + Len(part) - 1 <= Len(text)
    /\ SubSeq(text, p, p + Len(part) - 1) = part

\* input has an entry whose key is k: it starts with `k=`, or holds `:k=`.
KeyOccurs(k) ==
    \/ HoldsAt(input, 1, k \o "=")
    \/ \E p \in 1..Len(input) : HoldsAt(input, p, ":" \o k \o "=")

\* C9: applying a configuration string changes the registry only where a
\* well-formed entry says so: the mapping of every indicator whose key is not an
\* entry key is unchanged (`ex=01` leaves Directory bold blue), the suffix
\* entries already in the list keep their content and position, and an entry
\* with no `=`, an empty entry or an unknown key changes nothing while the
\* entries before and after it are still applied.
C9_Frame ==
    ctor = "from_string" =>
        /\ \A k \in IndicatorKeys :
              ~KeyOccurs(k) =>
                  map_get(lscolors.indicator_mapping, Unwrap(Indicator_from(k)))
                  = map_get(LsColors_default.indicator_mapping, Unwrap(Indicator_from(k)))
        /\ SubSeq(lscolors.suffix_mapping, 1, Len(LsColors_default.suffix_mapping))
              = LsColors_default.suffix_mapping
        /\ \A e \in MalformedEntries :
              /\ input = e => lscolors = LsColors_default
              /\ \A a \in WellFormedEntries :
                    (input = a \o ":" \o e \/ input = e \o ":" \o a)
                    => lscolors = from_string(a)
              /\ \A a \in WellFormedEntries, b \in WellFormedEntries :
                    input = a \o ":" \o e \o ":" \o b
                    => lscolors = from_string(a \o ":" \o b)
        /\ (call.op = "style_for_indicator" /\ call.indicator = "Directory"
                                            /\ ~KeyOccurs("di"))
              => call.ret = Some(Style(Some(Blue), None, FontStyle_bold))
        /\ input = "ex=01:di:*.foo=32" =>
              /\ map_get(lscolors.indicator_mapping, "ExecutableFile")
                    = Some(Style(None, None, FontStyle_bold))
              /\ lscolors.suffix_mapping
                    = Append(LsColors_default.suffix_mapping,
                             << ".foo", Style(Some(Green), None, FontStyle_default) >>)

\* Directory was looked up under `ex=01:di:*.foo=32` and is still bold blue, the
\* entries around `di` having been applied.
C9_Witness ==
    /\ BuiltFrom("ex=01:di:*.foo=32")
    /\ call.op = "style_for_indicator"
    /\ call.indicator = "Directory"
    /\ call.ret = Some(Style(Some(Blue), None, FontStyle_bold))
    /\ lscolors.indicator_mapping["ExecutableFile"] = Style(None, None, FontStyle_bold)
    /\ Len(lscolors.suffix_mapping) = Len(LsColors_default.suffix_mapping) + 1

(***************************************************************************)
(* SpecFileName: fi, no and suffix entries on top of the baseline, and     *)
(* lookups, with metadata and without, of paths whose final component is a *)
(* file name, is `..`, is the root, or is not valid UTF-8.                 *)
(***************************************************************************)
FileNameEntries == {"fi=01", "no=04", "*.wav=33;44", "*t.wav=04", "ex=x"}
FileNameConfigs == ConfigsOf(FileNameEntries, MaxEntries)

FileNamePaths ==
    { << Normal(OsStr("test.wav")) >>,
      << Normal(OsStr("dir")), Normal(OsStr("NOTES.TXT")) >>,
      << Normal(OsStr("dir")), ParentDir >>,
      << RootDir >>,
      << Normal(NonUtf8("caf.wav")) >> }

PlainDir == File(Some(Metadata("dir", 493, 2)), TRUE)

InitFileName == Construct(FileNameConfigs)
NextFileName ==
    Lookup(FileNamePaths, {NoMetadata, PlainFile, PlainDir}, {"RegularFile", "Normal"})
SpecFileName == InitFileName /\ [][NextFileName]_vars

\* The final component of the path of the last lookup is a file name that is
\* valid text.
CallNameUsable ==
    /\ call.path # << >>
    /\ call.path[Len(call.path)].kind = "Normal"
    /\ call.path[Len(call.path)].os_str.utf8

\* The positions of the suffix entries that match the path of the last lookup:
\* those whose suffix is an ending of its lowercased file name.
CallMatching ==
    IF CallNameUsable
    THEN {i \in 1..Len(lscolors.suffix_mapping) :
            IsEnding(lscolors.suffix_mapping[i][1], to_ascii_lowercase(CallName))}
    ELSE {}

\* What RegularFile resolves to, read off the mapping: the mapping of fi, else
\* that of no, else nothing.
PlainResolution ==
    LET m == lscolors.indicator_mapping
    IN  IF "RegularFile" \in DOMAIN m THEN << m["RegularFile"] >>
        ELSE IF "Normal" \in DOMAIN m THEN << m["Normal"] >>
        ELSE << >>

\* C11: when no metadata is available for a path, classification is always
\* RegularFile, whichever attribute indicators are mapped, and the result is the
\* style of the last matching suffix entry if one matches (test.wav gets the
\* baseline `*.wav` style under the default registry), otherwise
\* style_for_indicator(RegularFile).
C11_NoMetadata ==
    (call.op = "style_for_path_with_metadata" /\ call.metadata = None) =>
        LET sm == lscolors.suffix_mapping
        IN  /\ call.indicator = "RegularFile"
            /\ call.ret =
                  IF CallMatching = {} THEN PlainResolution
                  ELSE Some(sm[CHOOSE i \in CallMatching :
                                  \A j \in CallMatching : j <= i][2])
            /\ (ctor = "default" /\ call.path = << Normal(OsStr("test.wav")) >>)
                  => call.ret = Some(Style(Some(Cyan), None, FontStyle_default))

\* C16: when a path is classified RegularFile but its final component is not
\* valid text, or it has no final file name component (`..`, the root),
\* style_for_path_with_metadata returns style_for_indicator(RegularFile): the
\* mapping of fi, else that of no, else nothing.
C16_UnusableFileName ==
    ( /\ call.op = "style_for_path_with_metadata"
      /\ call.indicator = "RegularFile"
      /\ ~CallNameUsable )
    => call.ret = PlainResolution

\* The last lookup was style_for_indicator(MissingFile) on a registry where
\* neither MissingFile nor OrphanedSymbolicLink has a mapping and SymbolicLink
\* has one.
CallOnUnmappedMissingFile ==
    /\ call.op = "style_for_indicator"
    /\ call.indicator = "MissingFile"
    /\ ~Mapped("MissingFile")
    /\ ~Mapped("OrphanedSymbolicLink")
    /\ Mapped("SymbolicLink")

\* C17 as stated: the fallback of MissingFile is a two-hop chain; when neither
\* MissingFile nor OrphanedSymbolicLink has a mapping but SymbolicLink has one,
\* style_for_indicator(MissingFile) returns the style of SymbolicLink.
C17_TwoHopChain ==
    CallOnUnmappedMissingFile
    => call.ret = Some(lscolors.indicator_mapping["SymbolicLink"])

\* C17, amended: the fallback of MissingFile is a single hop; when neither
\* MissingFile nor OrphanedSymbolicLink has a mapping, style_for_indicator(
\* MissingFile) returns the style of Normal if Normal has a mapping and nothing
\* otherwise, also when SymbolicLink has a mapping.
C17_SingleHop ==
    CallOnUnmappedMissingFile
    => call.ret = map_get(lscolors.indicator_mapping, "Normal")

\* MissingFile was looked up under `no=04:or=x:mi=x`: ln is bold cyan, and the
\* result is the underline of no.
C17_Witness ==
    /\ CallOnUnmappedMissingFile
    /\ BuiltFrom("no=04:or=x:mi=x")
    /\ lscolors.indicator_mapping["SymbolicLink"] = Style(Some(Cyan), None, FontStyle_bold)
    /\ call.ret = Some(Style(None, None, FontStyle_underline))

(***************************************************************************)
(* SpecBadValue: entries whose value has a token that is no integer        *)
(* 0..255, and entries with a good value, on top of the baseline.          *)
(***************************************************************************)
\* A token that is not a number, one after a good token, and a value above 255.
BadValues == {"x", "1;x", "256"}
BadIndicatorKeys == {"di", "mi", "ex"}
BadIndicatorEntries == { k \o "=" \o v : k \in BadIndicatorKeys, v \in BadValues }
BadSuffixEntries == { "*.tar=" \o v : v \in BadValues }
GoodEntries == {"mi=04", "ex=35", "*.tar=32"}

BadValueConfigs ==
    ConfigsOf(BadIndicatorEntries \cup BadSuffixEntries \cup GoodEntries, MaxEntries)

\* A regular file rwxr-xr-x with one link.
ExecFile == File(Some(Metadata("file", 493, 1)), TRUE)

InitBadValue == Construct(BadValueConfigs)
NextBadValue ==
    Lookup({ << Normal(OsStr("x.tar")) >> }, {PlainFile, ExecFile},
           {"Directory", "MissingFile", "ExecutableFile"})
SpecBadValue == InitBadValue /\ [][NextBadValue]_vars

\* The registry the entries of input before its last entry e build: the
\* baseline when e is all of input.
BeforeLast(e) ==
    IF input = e THEN LsColors_default
    ELSE from_string(SubSeq(input, 1, Len(input) - Len(e) - 1))

\* C15: applying `k=v`, k a recognised indicator key and v holding a token that
\* is not an integer 0..255, removes any mapping of k, from the baseline or from
\* an earlier entry: afterwards k is not configured for classification and
\* style_for_indicator(k) is answered by the fallback chain; the same value on a
\* `*suffix` key leaves the suffix list unchanged; in both cases the mapping of
\* every other key is untouched, and a later `k=valid` installs the mapping
\* again.
C15_BadValueUnsets ==
    ctor = "from_string" =>
        /\ \A k \in BadIndicatorKeys, v \in BadValues :
              LET e == k \o "=" \o v
                  i == Unwrap(Indicator_from(k))
                  m == lscolors.indicator_mapping
              IN  /\ LastEntryIs(e) =>
                        /\ i \notin DOMAIN m
                        /\ (call.op = "style_for_indicator" /\ call.indicator = i)
                              => call.ret =
                                    IF C3_Designated(i) \in DOMAIN m
                                    THEN << m[C3_Designated(i)] >>
                                    ELSE map_get(m, "Normal")
                        /\ (call.op = "style_for_path_with_metadata"
                              /\ call.metadata = ExecFile.metadata /\ k = "ex")
                              => call.indicator = "RegularFile"
                        /\ call = NoCall =>
                              /\ lscolors.suffix_mapping = BeforeLast(e).suffix_mapping
                              /\ \A j \in Indicators \ {i} :
                                    map_get(m, j)
                                    = map_get(BeforeLast(e).indicator_mapping, j)
                  /\ \A g \in GoodEntries :
                        (input = e \o ":" \o g /\ HoldsAt(g, 1, k \o "="))
                        => /\ i \in DOMAIN m
                           /\ lscolors = from_string(g)
        /\ \A v \in BadValues :
              (LastEntryIs("*.tar=" \o v) /\ call = NoCall)
              => lscolors = BeforeLast("*.tar=" \o v)
        /\ (input = "*.tar=x:*.tar=32" /\ call.op = "style_for_path_with_metadata"
                                        /\ call.metadata = PlainFile.metadata)
              => call.ret = Some(Style(Some(Green), None, FontStyle_default))

\* MissingFile was looked up under `mi=04:mi=x`: the mapping the earlier entry
\* installed is gone and the answer is the style of or, bold red on black.
C15_Witness ==
    /\ BuiltFrom("mi=04:mi=x")
    /\ call.op = "style_for_indicator"
    /\ call.indicator = "MissingFile"
    /\ ~Mapped("MissingFile")
    /\ call.ret = Some(Style(Some(Red), Some(Black), FontStyle_bold))

(***************************************************************************)
(* SpecParse: Style::from_ansi_sequence applied to codes made of chunks:   *)
(* tokens that are numbers, extended colour sequences whole and cut short, *)
(* and tokens that are no u8.                                              *)
(***************************************************************************)
\* The number of chunks of a code.
MaxChunks == 2

GoodChunks ==
    { "0", "00", "1", "01", "03", "4", "31", "34", "36", "39", "44", "47", "49",
      "38;5;115", "38;5;119", "38;2;115;3;100", "48;5;7", "48;2;1;2;3",
      "38;5", "38;2;1;2", "38;7;1", "48", "99", "5", "255", "+1", "007" }

\* Empty, not a number, above 255, signed, padded.
BadChunks == { "", "x", "256", "1x", "-1", "-0", " 1", "1000" }

Chunks == GoodChunks \cup BadChunks

\* The chunks that come before the last two of a longer code.
LeadChunks == {"31", "4", "99", "38;5"}

\* The codes of 1..n chunks joined by `;`.
RECURSIVE CodesOf(_)
CodesOf(n) ==
    IF n <= 2 THEN Chunks \cup { a \o ";" \o b : a, b \in Chunks }
    ELSE CodesOf(n - 1) \cup { a \o ";" \o c : a \in LeadChunks, c \in CodesOf(n - 1) }

\* Codes of the crate's tests and of the claims that are longer.
TestCodes ==
    { "31;99;x", "31;99;44", "38;2;115;3;100;3", "00;38;5;115", "01;38;5;119" }

AnsiCodes == CodesOf(MaxChunks) \cup TestCodes

FromAnsiSequence ==
    /\ call' = [op |-> "from_ansi_sequence",
                code |-> input,
                ret |-> from_ansi_sequence(input)]
    /\ UNCHANGED <<lscolors, ctor, input, styled_components>>

InitParse ==
    /\ ctor = "empty"
    /\ lscolors = LsColors_empty
    /\ input \in AnsiCodes
    /\ call = NoCall
    /\ styled_components = None
NextParse == FromAnsiSequence
SpecParse == InitParse /\ [][NextParse]_vars

\* The `;`-separated tokens of code: the stretches without `;` that reach from
\* the start or a `;` to the end or a `;` (the empty ones too).
TokensOf(code) ==
    LET n == Len(code)
        sep(i) == i = 0 \/ i = n + 1 \/ CharAt(code, i) = ";"
    IN  { SubSeq(code, a, b) :
            << a, b >> \in { ab \in (1..(n + 1)) \X (0..n) :
                               /\ ab[2] >= ab[1] - 1
                               /\ sep(ab[1] - 1)
                               /\ sep(ab[2] + 1)
                               /\ \A i \in ab[1]..ab[2] : CharAt(code, i) # ";" } }

\* tok without its leading zeros (one digit is kept).
RECURSIVE StripZeros(_)
StripZeros(tok) ==
    IF Len(tok) > 1 /\ Head(tok) = "0" THEN StripZeros(Tail(tok)) ELSE tok

\* tok is a decimal integer 0..255 as a u8 is written: decimal digits, leading
\* zeros allowed, optionally preceded by `+`; no other sign, no blank.
IsU8Numeral(tok) ==
    LET digits == IF tok # "" /\ Head(tok) = "+" THEN Tail(tok) ELSE tok
    IN  \E n \in 0..255 : StripZeros(digits) = ToString(n)

NumeralValue(tok) ==
    LET digits == IF Head(tok) = "+" THEN Tail(tok) ELSE tok
    IN  CHOOSE n \in 0..255 : StripZeros(digits) = ToString(n)

\* C13: Style::from_ansi_sequence returns nothing, never a partial style, if and
\* only if at least one `;`-separated token is not a decimal integer 0..255:
\* an empty token (empty string, trailing or doubled `;`), a value above 255, a
\* bad token after the point where consumption stops (`31;99;x`); when every
\* token is such an integer it returns a style.
C13_FailsAsAWhole ==
    call.op = "from_ansi_sequence" =>
        /\ call.ret = None <=> \E tok \in TokensOf(call.code) : ~IsU8Numeral(tok)
        /\ call.code \in {"", "31;", "31;;1", "256", "31;99;x"} => call.ret = None

\* `31;99;x` was parsed: consumption would stop at 99, and the result is nothing.
C13_Witness ==
    /\ call.op = "from_ansi_sequence"
    /\ call.code = "31;99;x"
    /\ call.ret = None

\* The values of the tokens of code, in order; every token is a u8 numeral.
ValuesOf(code) ==
    LET tokens == split(code, ";")
    IN  [i \in 1..Len(tokens) |-> NumeralValue(tokens[i])]

ColourTable == << Black, Red, Green, Yellow, Blue, Purple, Cyan, White >>

\* What the tokens vals[i..] do one after the other, as C14 lists it, up to the
\* first unrecognised token or incomplete extended sequence: each effect names
\* the field it writes and the colour, if it writes one.
RECURSIVE Effects(_, _)
Effects(vals, i) ==
    IF i > Len(vals) THEN << >>
    ELSE
    LET v == vals[i]
        field == IF v < 40 THEN "foreground" ELSE "background"
    IN  IF v = 0 THEN << [f |-> "reset", c |-> None] >> \o Effects(vals, i + 1)
        ELSE IF v = 1 THEN << [f |-> "bold", c |-> None] >> \o Effects(vals, i + 1)
        ELSE IF v = 3 THEN << [f |-> "italic", c |-> None] >> \o Effects(vals, i + 1)
        ELSE IF v = 4 THEN << [f |-> "underline", c |-> None] >> \o Effects(vals, i + 1)
        ELSE IF v \in (30..37) \cup (40..47)
        THEN << [f |-> field, c |-> Some(ColourTable[(v % 10) + 1])] >>
             \o Effects(vals, i + 1)
        ELSE IF v \in {39, 49}
        THEN << [f |-> field, c |-> None] >> \o Effects(vals, i + 1)
        ELSE IF v \in {38, 48} /\ i + 2 <= Len(vals) /\ vals[i + 1] = 5
        THEN << [f |-> field, c |-> Some(Fixed(vals[i + 2]))] >>
             \o Effects(vals, i + 3)
        ELSE IF v \in {38, 48} /\ i + 4 <= Len(vals) /\ vals[i + 1] = 2
        THEN << [f |-> field,
                 c |-> Some(RGB(vals[i + 2], vals[i + 3], vals[i + 4]))] >>
             \o Effects(vals, i + 5)
        ELSE << >>

\* The colour the last effect on field leaves, and whether a font flag is set
\* by an effect that no reset follows.
LastColour(effects, field) ==
    LET on == {n \in 1..Len(effects) : effects[n].f = field}
    IN  IF on = {} THEN None
        ELSE effects[CHOOSE n \in on : \A o \in on : o <= n].c

FlagSet(effects, flag) ==
    \E n \in 1..Len(effects) :
        /\ effects[n].f = flag
        /\ \A o \in (n + 1)..Len(effects) : effects[o].f # "reset"

FoldedStyle(code) ==
    LET effects == Effects(ValuesOf(code), 1)
    IN  [foreground |-> LastColour(effects, "foreground"),
         background |-> LastColour(effects, "background"),
         font_style |-> [bold |-> FlagSet(effects, "bold"),
                         italic |-> FlagSet(effects, "italic"),
                         underline |-> FlagSet(effects, "underline")]]

\* C14: for a code whose tokens are all integers 0..255, from_ansi_sequence is
\* the left-to-right fold from {no foreground, no background, default font}: 0
\* resets the font flags only, 1/3/4 set bold/italic/underline until a later 0,
\* 30-37 and 40-47 set the named foreground/background, 39 and 49 clear them,
\* 38 or 48 followed by 5,n sets an indexed colour and followed by 2,r,g,b an RGB
\* colour; the first unrecognised token or incomplete extended sequence stops
\* consumption, keeps what was accumulated and ignores every later token.
\* `34;03` and `03;34` give the same style.
C14_LeftToRightFold ==
    (call.op = "from_ansi_sequence"
        /\ \A tok \in TokensOf(call.code) : IsU8Numeral(tok))
    => /\ call.ret = Some(FoldedStyle(call.code))
       /\ call.code \in {"34;03", "03;34"}
             => call.ret = Some(Style(Some(Blue), None, FontStyle_italic))
       /\ call.code = "31;00"
             => call.ret = Some(Style(Some(Red), None, FontStyle_default))
       /\ call.code \in {"01;38;5;119", "38;5;119;01"}
             => call.ret = Some(Style(Some(Fixed(119)), None, FontStyle_bold))
       /\ call.code = "38;2;115;3;100;3"
             => call.ret = Some(Style(Some(RGB(115, 3, 100)), None, FontStyle_italic))
       /\ call.code = "31;99;44"
             => call.ret = Some(Style(Some(Red), None, FontStyle_default))
       /\ call.code = "4;38;2;1;2"
             => call.ret = Some(Style(None, None, FontStyle_underline))

\* `4;38;2;1;2` was parsed: the sequence cut short stopped consumption and the
\* underline set before it was kept.
C14_Witness ==
    /\ call.op = "from_ansi_sequence"
    /\ call.code = "4;38;2;1;2"
    /\ call.ret = Some(Style(None, None, FontStyle_underline))

(***************************************************************************)
(* SpecComponents: style_for_path_components and the StyledComponents      *)
(* iterator, over the files of the crate's test style_for_path_components  *)
(* and of the example of its documentation.                                *)
(***************************************************************************)
MAIN_SEPARATOR == "/"

\* PathBuf::push of the text of a component: a root replaces the path, any
\* other component is appended to it.
PathBuf_push(buf, component) ==
    IF component.kind = "RootDir" THEN << component >> ELSE Append(buf, component)

\* What the file system answers for path (symlink_metadata and exists): the
\* directory /tmp with test-dir, test-file.png and test-symlink -> test-dir, and
\* the directory foo/bar with test.md; nothing else exists.
FileSystem(path) ==
    CASE path = << RootDir >> -> PlainDir
      [] path = << RootDir, Normal(OsStr("tmp")) >> -> StickyDir
      [] path = << RootDir, Normal(OsStr("tmp")), Normal(OsStr("test-dir")) >> -> PlainDir
      [] path = << RootDir, Normal(OsStr("tmp")), Normal(OsStr("test-symlink")) >> ->
            File(Some(Metadata("symlink", 511, 1)), TRUE)
      [] path = << RootDir, Normal(OsStr("tmp")), Normal(OsStr("test-symlink")),
                   Normal(OsStr("test-file.png")) >> -> PlainFile
      [] path = << CurDir >> -> PlainDir
      [] path = << ParentDir >> -> PlainDir
      [] path = << ParentDir, ParentDir >> -> PlainDir
      [] path = << Normal(OsStr("foo")) >> -> PlainDir
      [] path = << Normal(OsStr("foo")), Normal(OsStr("bar")) >> -> PlainDir
      [] path = << Normal(OsStr("foo")), Normal(OsStr("bar")),
                   Normal(OsStr("test.md")) >> -> PlainFile
      [] path = << Normal(OsStr("foo")), ParentDir >> -> PlainDir
      [] OTHER -> NoMetadata

\* LsColors::style_for_path
style_for_path(self, path) ==
    LET file == FileSystem(path)
    IN  style_for_path_with_metadata(self, path, file.exists, file.metadata)

\* StyledComponents::next looking up the style of the component alone, not of
\* the path that leads to it.
StyledComponents_next_component_alone(self, it) ==
    IF it.components # << >>
    THEN LET component == Head(it.components)
             rest == Tail(it.components)
             component_path == PathBuf_push(it.component_path, component)
             style == style_for_path(self, << component >>)
             component_str ==
                 IF rest # << >> /\ component.kind \in {"CurDir", "ParentDir", "Normal"}
                 THEN [component.os_str EXCEPT !.text = @ \o MAIN_SEPARATOR]
                 ELSE component.os_str
         IN  [ret |-> Some([text |-> component_str, style |-> style]),
              it |-> [component_path |-> component_path, components |-> rest]]
    ELSE [ret |-> None, it |-> it]

\* StyledComponents::next on the iterator it: the item it returns and the
\* iterator it leaves.  rest # << >> is self.components.peek().is_some().
StyledComponents_next(self, it) ==
    IF it.components # << >>
    THEN LET component == Head(it.components)
             rest == Tail(it.components)
             component_path == PathBuf_push(it.component_path, component)
             style == style_for_path(self, component_path)
             component_str ==
                 IF rest # << >> /\ component.kind \in {"CurDir", "ParentDir", "Normal"}
                 THEN [component.os_str EXCEPT !.text = @ \o MAIN_SEPARATOR]
                 ELSE component.os_str
         IN  [ret |-> Some([text |-> component_str, style |-> style]),
              it |-> [component_path |-> component_path, components |-> rest]]
    ELSE [ret |-> None, it |-> it]

\* LsColors::style_for_path_components: a new iterator over the components of
\* path; call.items collects what the iterator yields.
StyleForPathComponents(path) ==
    /\ styled_components' = Some([component_path |-> << >>, components |-> path])
    /\ call' = [op |-> "style_for_path_components",
                path |-> path,
                items |-> << >>,
                ret |-> None]
    /\ UNCHANGED <<lscolors, ctor, input>>

\* One call of next() on the iterator.
StyledComponentsNext ==
    /\ IsSome(styled_components)
    /\ call.op \in {"style_for_path_components", "next"}
    /\ LET r == StyledComponents_next(lscolors, Unwrap(styled_components))
       IN  /\ styled_components' = Some(r.it)
           /\ call' = [op |-> "next",
                       path |-> call.path,
                       items |-> IF IsSome(r.ret)
                                 THEN Append(call.items, Unwrap(r.ret))
                                 ELSE call.items,
                       ret |-> r.ret]
    /\ UNCHANGED <<lscolors, ctor, input>>

ComponentConfigs ==
    { "di=34:ln=35:*.png=36", "*.md=32:fi=04", "di=x:tw=x", "no=03", "*bar=31" }

TestPath ==
    << RootDir, Normal(OsStr("tmp")), Normal(OsStr("test-symlink")),
       Normal(OsStr("test-file.png")) >>
FooBarTestMd ==
    << Normal(OsStr("foo")), Normal(OsStr("bar")), Normal(OsStr("test.md")) >>

ComponentPaths ==
    { FooBarTestMd,
      TestPath,
      << RootDir >>,
      << >>,
      << CurDir, Normal(OsStr("missing.png")) >>,
      << ParentDir, ParentDir, Normal(OsStr("bar")) >>,
      << Normal(OsStr("foo")), ParentDir, Normal(NonUtf8("caf.md")) >>,
      << Normal(OsStr("test.md")) >> }

InitComponents == Construct(ComponentConfigs)
NextComponents ==
    \/ \E path \in ComponentPaths : StyleForPathComponents(path)
    \/ StyledComponentsNext
SpecComponents == InitComponents /\ [][NextComponents]_vars

\* The text of the items yielded so far.
ItemTexts == [n \in 1..Len(call.items) |-> call.items[n].text.text]

\* C12: style_for_path_components yields exactly one item per path component, in
\* root-to-leaf order, and then ends; the style of the n-th item is
\* style_for_path of the prefix made of the first n components; the text of
\* every component that is not the last gets the separator appended unless it is
\* a root or prefix component, and the last component never gets one.  For
\* `foo/bar/test.md` there are exactly 3 items, `foo/`, `bar/` and `test.md`.
C12_OneItemPerComponent ==
    call.op = "next" =>
        LET path == call.path
            items == call.items
        IN  /\ Len(items) <= Len(path)
            /\ call.ret = None => Len(items) = Len(path)
            /\ call.ret # None => call.ret = Some(items[Len(items)])
            /\ \A n \in 1..Len(items) :
                  /\ items[n].style = style_for_path(lscolors, SubSeq(path, 1, n))
                  /\ items[n].text.utf8 = path[n].os_str.utf8
                  /\ items[n].text.text =
                        IF n < Len(path) /\ path[n].kind \notin {"RootDir", "Prefix"}
                        THEN path[n].os_str.text \o "/"
                        ELSE path[n].os_str.text
            /\ (path = FooBarTestMd /\ call.ret = None)
                  => ItemTexts = << "foo/", "bar/", "test.md" >>
            /\ (path = TestPath /\ call.ret = None)
                  => /\ ItemTexts = << "/", "tmp/", "test-symlink/", "test-file.png" >>
                     /\ BuiltFrom("di=34:ln=35:*.png=36")
                           => /\ items[3].style
                                    = Some(Style(Some(Purple), None, FontStyle_default))
                              /\ items[4].style
                                    = Some(Style(Some(Cyan), None, FontStyle_default))

\* foo/bar/test.md was iterated to its end under `*.md=32:fi=04`: three items,
\* the directories bold blue and the file green, and then nothing.
C12_Witness ==
    /\ call.op = "next"
    /\ call.path = FooBarTestMd
    /\ BuiltFrom("*.md=32:fi=04")
    /\ call.ret = None
    /\ ItemTexts = << "foo/", "bar/", "test.md" >>
    /\ call.items[2].style = Some(Style(Some(Blue), None, FontStyle_bold))
    /\ call.items[3].style = Some(Style(Some(Green), None, FontStyle_default))
    /\ Unwrap(styled_components).components = << >>

====
